---- MODULE Spec2Model ----
(***************************************************************************)
(* Batch layer of seedseg (run.py): the two generator functions            *)
(* process_fluorescent_batch and process_colorimetric_batch, and the       *)
(* command-line run that parses its options, collects the files of a       *)
(* directory, consumes the batch iterator and stores the results.          *)
(*                                                                         *)
(* Representation.  A sample name is the sequence of its characters, and   *)
(* names are ordered as Python orders strings (by code point, a proper     *)
(* prefix first).  A file name "<p>_<t>.<ext>" is the pair <<p, t>>, its   *)
(* path the triple <<"in", p, t>>.  Floats are scaled integers.  Python's  *)
(* None is None (numbers) or NoneStr (strings).  Everything the generator  *)
(* yields and every call it makes to a per-image orchestrator is appended, *)
(* in program order, to the log `events`.  The generator takes one step    *)
(* per stretch of code between two points where it can be suspended or     *)
(* branches, so every state in which the consumer holds a yielded item is  *)
(* a state of the model.                                                   *)
(***************************************************************************)
EXTENDS Integers, Sequences, FiniteSets, TLC

\* ------------------------------------------------------------ bounds
MaxSamples == 2
MaxFiles == 2
MaxSeeds == 1

\* ------------------------------------------------------------ values
None == -1
NoneStr == "None"

DEFAULT_BRIGHTFIELD_SUFFIX == "BF"
DEFAULT_FLUORESCENT_SUFFIX == "FL"
FLUORESCENCE == "fluorescence"
COLORIMETRIC == "colorimetric"

\* Sample names: "s1" is a proper prefix of "s10", and "s10" of "s100".
SampleNames ==
    <<<<"s", "1">>, <<"s", "1", "0">>, <<"s", "2">>, <<"s", "1", "0", "0">>>>
Samples == {SampleNames[k] : k \in 1..MaxSamples}
ImgTypes == {"BF", "FL", "X"}

\* Python truthiness of an optional number (`not x` is Falsy(x)).
Falsy(n) == n = None \/ n = 0

\* `s or d` on an optional string.
OrElse(s, d) == IF s = NoneStr \/ s = "" THEN d ELSE s

\* utils.Result(sample_name): every count and threshold starts unset.
Result(sample_name) ==
    [prefix |-> sample_name, total_seeds |-> None, marker_seeds |-> None,
     bf_thresh |-> None, marker_thresh |-> None, radial_threshold |-> None,
     radial_threshold_ratio |-> None]

\* What one run of a per-image orchestrator can return.
Outcome(n) == [num_seeds |-> n, brightness_threshold |-> 50 + n, radial_threshold |-> 7 + n]
ProcessOutcomes == {Outcome(n) : n \in 0..MaxSeeds}
\* process_colorimetric_image returns the "all seeds" and the "marker" outcome
\* of one image: the marker seeds are among the seeds counted.
ColorimetricOutcomes ==
    {p \in ProcessOutcomes \X ProcessOutcomes : p[2].num_seeds <= p[1].num_seeds}

\* ------------------------------------------------------------ sorted()
\* ord() of the characters that occur in names.
Ord(c) ==
    CASE c = "0" -> 48 [] c = "1" -> 49 [] c = "2" -> 50
      [] c = "B" -> 66 [] c = "F" -> 70 [] c = "L" -> 76 [] c = "X" -> 88
      [] c = "_" -> 95 [] c = "s" -> 115

\* a < b on Python strings.
RECURSIVE StrLess(_, _)
StrLess(a, b) ==
    IF a = << >> THEN b # << >>
    ELSE IF b = << >> THEN FALSE
    ELSE IF Head(a) = Head(b) THEN StrLess(Tail(a), Tail(b))
    ELSE Ord(Head(a)) < Ord(Head(b))

Min(S) == CHOOSE x \in S : \A y \in S : x = y \/ StrLess(x, y)

RECURSIVE SortedDesc(_)
SortedDesc(S) == IF S = {} THEN << >>
                 ELSE LET m == Min(S) IN Append(SortedDesc(S \ {m}), m)

RECURSIVE sorted(_)
sorted(S) == IF S = {} THEN << >>
             ELSE LET m == Min(S) IN <<m>> \o sorted(S \ {m})

\* ------------------------------------------------------------ inputs
\* A file descriptor of the fluorescence workflow, and one of the
\* colorimetric workflow (no img_type key).
FileObj(p, t) == [file_path |-> <<"in", p, t>>, file_name |-> <<p, t>>, img_type |-> t]
SingleFileObj(p, t) == [file_path |-> <<"in", p, t>>, file_name |-> <<p, t>>]

SeqsUpTo(S, n) == UNION {[1..k -> S] : k \in 0..n}

\* The image types listed for sample s in a flat list of <<sample, type>> pairs.
RECURSIVE TypesOf(_, _)
TypesOf(l, s) ==
    IF l = << >> THEN << >>
    ELSE (IF Head(l)[1] = s THEN <<Head(l)[2]>> ELSE << >>) \o TypesOf(Tail(l), s)

\* Every mapping from some samples to lists of image types, at most MaxFiles
\* files in all (a sample may have an empty list).
TypeMappings ==
    {[s \in D |-> TypesOf(l, s)] :
        <<l, D>> \in {x \in SeqsUpTo(Samples \X ImgTypes, MaxFiles) \X SUBSET Samples :
                        \A k \in 1..Len(x[1]) : x[1][k][1] \in x[2]}}

FluorescentMapping(m) == [s \in DOMAIN m |-> [k \in 1..Len(m[s]) |-> FileObj(s, m[s][k])]]
ColorimetricMapping(m) == [s \in DOMAIN m |-> [k \in 1..Len(m[s]) |-> SingleFileObj(s, m[s][k])]]

\* The keyword arguments of a batch call: all left at None, or all given.
NoArgs ==
    [bf_thresh |-> None, fl_thresh |-> None, radial_thresh |-> None,
     batch_output_dir |-> NoneStr, bf_suffix |-> NoneStr, fl_suffix |-> NoneStr,
     radial_threshold_ratio |-> None, large_area_factor |-> None, plot |-> TRUE]
AllArgs ==
    [bf_thresh |-> 30, fl_thresh |-> 40, radial_thresh |-> 5,
     batch_output_dir |-> "out", bf_suffix |-> NoneStr, fl_suffix |-> NoneStr,
     radial_threshold_ratio |-> 4, large_area_factor |-> 3, plot |-> FALSE]
ArgPresets == {NoArgs, AllArgs}
\* With them bf_suffix and fl_suffix: both left at None, a custom brightfield
\* suffix, the same custom suffix for both.
FluorescentArgs ==
    {NoArgs, AllArgs,
     [AllArgs EXCEPT !.bf_suffix = "X"],
     [AllArgs EXCEPT !.bf_suffix = "X", !.fl_suffix = "X"]}

\* The files of the input directory, as os.listdir may return them: distinct
\* names in any order.
FileNames == Samples \X {DEFAULT_BRIGHTFIELD_SUFFIX, DEFAULT_FLUORESCENT_SUFFIX}
Listings == {l \in SeqsUpTo(FileNames, MaxFiles) :
                \A a, b \in 1..Len(l) : a # b => l[a] # l[b]}

\* The options of the command line.  -t and -s are kept as the parts that
\* split(",") gives; an option that is not given has its argparse default.
NotGiven == [given |-> FALSE, parts |-> << >>]
Given(parts) == [given |-> TRUE, parts |-> parts]
DefaultOptions ==
    [intensity_thresh |-> NotGiven, radial_thresh |-> None,
     radial_threshold_ratio |-> 4, large_area_factor |-> None, plot |-> FALSE]
GivenOptions ==
    [intensity_thresh |-> Given(<<"30", "40">>), radial_thresh |-> 5,
     radial_threshold_ratio |-> 6, large_area_factor |-> 3, plot |-> TRUE]
DefaultSuffix == <<DEFAULT_BRIGHTFIELD_SUFFIX, DEFAULT_FLUORESCENT_SUFFIX>>
\* The command lines: <<options, parts of -s, --nostore>>.  No option given;
\* every option given, with -s X,X; -s BF; -t 30; -t a,40.
CommandLines ==
    {<<DefaultOptions, DefaultSuffix, FALSE>>,
     <<GivenOptions, <<"X", "X">>, TRUE>>,
     <<DefaultOptions, <<DEFAULT_BRIGHTFIELD_SUFFIX>>, TRUE>>,
     <<[DefaultOptions EXCEPT !.intensity_thresh = Given(<<"30">>)], DefaultSuffix, FALSE>>,
     <<[DefaultOptions EXCEPT !.intensity_thresh = Given(<<"a", "40">>)], DefaultSuffix, TRUE>>}
Cli(o, sfx, l, exists, n) ==
    [intensity_thresh |-> o.intensity_thresh, radial_thresh |-> o.radial_thresh,
     radial_threshold_ratio |-> o.radial_threshold_ratio,
     large_area_factor |-> o.large_area_factor, plot |-> o.plot,
     img_type_suffix |-> sfx, listing |-> l, dir_exists |-> exists,
     nostore |-> n, output |-> "out"]
NoCli == Cli(DefaultOptions, <<NoneStr, NoneStr>>, << >>, FALSE, FALSE)

\* ------------------------------------------------------------ state
VARIABLES
    entry,            \* "api": a batch function is called directly; "cli": __main__
    mode,             \* FLUORESCENCE or COLORIMETRIC
    cli,              \* the command line and the input directory ("cli" only)
    args,             \* the arguments of the batch call
    sample_to_files,  \* the mapping handed to the batch function
    pc,               \* where the run is (see the actions)
    i,                \* 1-based position in sorted(sample_to_files.keys())
    j,                \* 1-based position in the current sample's descriptor list
    result,           \* the generator's local `result`
    results,          \* the list of appended Results
    events,           \* everything yielded and every orchestrator call, in order
    stored            \* the calls of store_results

vars == <<entry, mode, cli, args, sample_to_files, pc, i, j, result, results, events, stored>>

keys == sorted(DOMAIN sample_to_files)
sample_name == keys[i]
bf_suffix == OrElse(args.bf_suffix, DEFAULT_BRIGHTFIELD_SUFFIX)
fl_suffix == OrElse(args.fl_suffix, DEFAULT_FLUORESCENT_SUFFIX)

\* Before the first sample the generator's `result` is unbound: it is shown
\* as a Result of the empty name, which no step reads.
Init ==
    /\ i = 1 /\ j = 1
    /\ result = Result(<< >>)
    /\ results = << >>
    /\ events = << >>
    /\ stored = << >>
    /\ \/ /\ entry = "api"
          /\ pc = "loop"
          /\ cli = NoCli
          /\ \E m \in TypeMappings :
                \/ /\ mode = FLUORESCENCE
                   /\ sample_to_files = FluorescentMapping(m)
                   /\ args \in FluorescentArgs
                \/ /\ mode = COLORIMETRIC
                   /\ sample_to_files = ColorimetricMapping(m)
                   /\ args \in ArgPresets
       \/ /\ entry = "cli"
          /\ pc = "main"
          /\ mode \in {FLUORESCENCE, COLORIMETRIC}
          /\ \E c \in CommandLines :
                \/ \E l \in Listings : cli = Cli(c[1], c[2], l, TRUE, c[3])
                \/ cli = Cli(c[1], c[2], << >>, FALSE, c[3])
          /\ args = NoArgs
          /\ sample_to_files = << >>

\* ------------------------------------------------------------ events
Msg(kind, sample, arg) ==
    [ev |-> "yield", str |-> TRUE, kind |-> kind, sample |-> sample, arg |-> arg]
ResultsItem(rs) ==
    [ev |-> "yield", str |-> FALSE, kind |-> "results", value |-> rs]

\* ------------------------------------------------------------ process_fluorescent_batch
\* An if / else chain with no branch for an unknown type.
BranchNoElse(img_type) ==
    IF img_type = bf_suffix THEN "brightfield" ELSE "fluorescent"

\* The branch of the if / elif / else chain taken for an img_type.
Branch(img_type) ==
    IF img_type = bf_suffix THEN "brightfield"
    ELSE IF img_type = fl_suffix THEN "fluorescent"
    ELSE "unknown"

\* The call process_seed_image(image=..., img_type=..., ...) and what it returned.
SeedCall(file_obj, img_type_name, thresh, returned) ==
    [ev |-> "call", fn |-> "process_seed_image",
     image |-> file_obj.file_path,
     img_type |-> img_type_name,
     sample_name |-> sample_name,
     initial_brightness_thresh |-> thresh,
     radial_threshold |-> args.radial_thresh,
     radial_threshold_ratio |-> args.radial_threshold_ratio,
     image_L |-> None,
     large_area_factor |-> args.large_area_factor,
     output_dir |-> args.batch_output_dir,
     plot |-> args.plot,
     returned |-> returned]

BrightfieldCall(file_obj, returned) ==
    SeedCall(file_obj, DEFAULT_BRIGHTFIELD_SUFFIX, args.bf_thresh, returned)

\* The fluorescent call with the brightfield threshold.
FluorescentCallCrossed(file_obj, returned) ==
    SeedCall(file_obj, DEFAULT_FLUORESCENT_SUFFIX, args.bf_thresh, returned)

FluorescentCall(file_obj, returned) ==
    SeedCall(file_obj, DEFAULT_FLUORESCENT_SUFFIX, args.fl_thresh, returned)

\* The brightfield call made twice.
BrightfieldRetry(file_obj, returned) ==
    <<BrightfieldCall(file_obj, returned), BrightfieldCall(file_obj, returned)>>

\* The orchestrator calls of the brightfield branch: one.
BrightfieldCalls(file_obj, returned) == <<BrightfieldCall(file_obj, returned)>>

BrightfieldUpdate(r, o) ==
    [r EXCEPT !.total_seeds = o.num_seeds,
              !.bf_thresh = o.brightness_threshold,
              !.radial_threshold = o.radial_threshold]

\* The fluorescent branch writing the brightfield fields.
FluorescentUpdateCrossed(r, o) ==
    [r EXCEPT !.total_seeds = o.num_seeds,
              !.bf_thresh = o.brightness_threshold,
              !.radial_threshold = o.radial_threshold]

FluorescentUpdate(r, o) ==
    [r EXCEPT !.marker_seeds = o.num_seeds,
              !.marker_thresh = o.brightness_threshold,
              !.radial_threshold = o.radial_threshold]

\* The descriptor the file loop is at.
file_obj == sample_to_files[sample_name][j]

\* The file loop is over / has a next descriptor.
FilesLeft == pc = "files" /\ j <= Len(sample_to_files[sample_name])
FilesOver == pc = "files" /\ j > Len(sample_to_files[sample_name])

\* Control is at the test of line 131, and at the append of line 134.
AtMarkerTest == (FilesOver /\ ~Falsy(result.total_seeds)) \/ pc = "missing_bf"
AtAppend == (AtMarkerTest /\ ~Falsy(result.marker_seeds)) \/ pc = "missing_fl"

\* Loop head: the next sample's "Processing sample" message is yielded.
FlNextSample ==
    /\ mode = FLUORESCENCE /\ pc = "loop" /\ i <= Len(keys)
    /\ events' = Append(events, Msg("Processing sample", sample_name, <<i, Len(keys)>>))
    /\ pc' = "sample"
    /\ UNCHANGED <<entry, mode, cli, args, sample_to_files, i, j, result, results, stored>>

\* Resumed after "Processing sample": the sample's fresh Result.
FlNewResult ==
    /\ mode = FLUORESCENCE /\ pc = "sample"
    /\ result' = [Result(sample_name) EXCEPT
                     !.radial_threshold_ratio = args.radial_threshold_ratio]
    /\ j' = 1
    /\ pc' = "files"
    /\ UNCHANGED <<entry, mode, cli, args, sample_to_files, i, results, events, stored>>

\* A file whose img_type is the brightfield suffix: its message is yielded.
FlBrightfield ==
    /\ mode = FLUORESCENCE /\ FilesLeft
    /\ Branch(file_obj.img_type) = "brightfield"
    /\ events' = Append(events,
            Msg("brightfield image", sample_name, <<bf_suffix, file_obj.file_name>>))
    /\ pc' = "brightfield"
    /\ UNCHANGED <<entry, mode, cli, args, sample_to_files, i, j, result, results, stored>>

\* Resumed after the brightfield message: the call and the Result's update.
FlBrightfieldProcess ==
    /\ mode = FLUORESCENCE /\ pc = "brightfield"
    /\ \E o \in ProcessOutcomes :
        /\ events' = events \o BrightfieldCalls(file_obj, o)
        /\ result' = BrightfieldUpdate(result, o)
    /\ j' = j + 1
    /\ pc' = "files"
    /\ UNCHANGED <<entry, mode, cli, args, sample_to_files, i, results, stored>>

\* A file whose img_type is the fluorescent suffix: its message is yielded.
FlFluorescent ==
    /\ mode = FLUORESCENCE /\ FilesLeft
    /\ Branch(file_obj.img_type) = "fluorescent"
    /\ events' = Append(events,
            Msg("fluorescent image", sample_name, <<fl_suffix, file_obj.file_name>>))
    /\ pc' = "fluorescent"
    /\ UNCHANGED <<entry, mode, cli, args, sample_to_files, i, j, result, results, stored>>

\* Resumed after the fluorescent message: the call and the Result's update.
FlFluorescentProcess ==
    /\ mode = FLUORESCENCE /\ pc = "fluorescent"
    /\ \E o \in ProcessOutcomes :
        /\ events' = Append(events, FluorescentCall(file_obj, o))
        /\ result' = FluorescentUpdate(result, o)
    /\ j' = j + 1
    /\ pc' = "files"
    /\ UNCHANGED <<entry, mode, cli, args, sample_to_files, i, results, stored>>

\* A file of any other img_type: its message is yielded, the loop goes on.
FlUnknown ==
    /\ mode = FLUORESCENCE /\ FilesLeft
    /\ Branch(file_obj.img_type) = "unknown"
    /\ events' = Append(events, Msg("Unknown image type", sample_name, file_obj.file_name))
    /\ j' = j + 1
    /\ UNCHANGED <<entry, mode, cli, args, sample_to_files, pc, i, result, results, stored>>

\* After the sample's last file, `not result.total_seeds`: the message.
FlMissingBrightfield ==
    /\ mode = FLUORESCENCE /\ FilesOver
    /\ Falsy(result.total_seeds)
    /\ events' = Append(events,
            Msg("Couldn't find brightfield image", sample_name, bf_suffix))
    /\ pc' = "missing_bf"
    /\ UNCHANGED <<entry, mode, cli, args, sample_to_files, i, j, result, results, stored>>

\* `not result.marker_seeds`: the message.
FlMissingFluorescent ==
    /\ mode = FLUORESCENCE /\ AtMarkerTest
    /\ Falsy(result.marker_seeds)
    /\ events' = Append(events,
            Msg("Couldn't find fluorescent image", sample_name, fl_suffix))
    /\ pc' = "missing_fl"
    /\ UNCHANGED <<entry, mode, cli, args, sample_to_files, i, j, result, results, stored>>

\* The sample's Result is appended and the sample loop goes on.
FlAppend ==
    /\ mode = FLUORESCENCE /\ AtAppend
    /\ results' = Append(results, result)
    /\ i' = i + 1
    /\ pc' = "loop"
    /\ UNCHANGED <<entry, mode, cli, args, sample_to_files, j, result, events, stored>>

\* After the last sample: the results list is yielded.
FlFinish ==
    /\ mode = FLUORESCENCE /\ pc = "loop" /\ i > Len(keys)
    /\ events' = Append(events, ResultsItem(results))
    /\ pc' = "done"
    /\ UNCHANGED <<entry, mode, cli, args, sample_to_files, i, j, result, results, stored>>

\* ------------------------------------------------------------ process_colorimetric_batch
ColorimetricCall(file_path, returned) ==
    [ev |-> "call", fn |-> "process_colorimetric_image",
     image |-> file_path,
     sample_name |-> sample_name,
     bf_thresh |-> args.bf_thresh,
     radial_threshold |-> args.radial_thresh,
     radial_threshold_ratio |-> args.radial_threshold_ratio,
     output_dir |-> args.batch_output_dir,
     large_area_factor |-> args.large_area_factor,
     plot |-> args.plot,
     returned |-> returned]

\* `assert len(sample_to_file[sample_name])`: the truthiness of the length.
AssertPasses(files) == Len(files) # 0

ColorimetricResult(name, all_seeds, colored_seeds) ==
    [Result(name) EXCEPT
        !.total_seeds = all_seeds.num_seeds,
        !.bf_thresh = all_seeds.brightness_threshold,
        !.marker_seeds = colored_seeds.num_seeds,
        !.marker_thresh = colored_seeds.brightness_threshold,
        !.radial_threshold = all_seeds.radial_threshold,
        !.radial_threshold_ratio = args.radial_threshold_ratio]

\* `if result.marker_seeds and result.total_seeds` ... else.
Verdict(r) ==
    IF ~Falsy(r.marker_seeds) /\ ~Falsy(r.total_seeds)
        THEN "Successfully processed" ELSE "Adjust parameters"

\* Control is at the test of line 206, and at the test of line 209.
AtColMarkerTest == (pc = "status" /\ ~Falsy(result.total_seeds)) \/ pc = "no_seeds"
AtVerdict == (AtColMarkerTest /\ ~Falsy(result.marker_seeds)) \/ pc = "no_marker"

\* Loop head: the next sample's "Processing sample" message is yielded.
ColNextSample ==
    /\ mode = COLORIMETRIC /\ pc = "loop" /\ i <= Len(keys)
    /\ events' = Append(events, Msg("Processing sample", sample_name, <<i, Len(keys)>>))
    /\ pc' = "body"
    /\ UNCHANGED <<entry, mode, cli, args, sample_to_files, i, j, result, results, stored>>

\* Resumed, the assertion fails: AssertionError leaves the generator.
ColAssertFail ==
    /\ mode = COLORIMETRIC /\ pc = "body"
    /\ ~AssertPasses(sample_to_files[sample_name])
    /\ pc' = "raised"
    /\ UNCHANGED <<entry, mode, cli, args, sample_to_files, i, j, result, results, events, stored>>

\* Resumed, the assertion passes: the first descriptor's image is processed,
\* the Result built and appended.
ColProcess ==
    /\ mode = COLORIMETRIC /\ pc = "body"
    /\ AssertPasses(sample_to_files[sample_name])
    /\ \E returned \in ColorimetricOutcomes :
        LET all_seeds == returned[1]
            colored_seeds == returned[2]
            file_path == sample_to_files[sample_name][1].file_path
            r == ColorimetricResult(sample_name, all_seeds, colored_seeds)
        IN  /\ result' = r
            /\ results' = Append(results, r)
            /\ events' = Append(events, ColorimetricCall(file_path, returned))
    /\ pc' = "status"
    /\ UNCHANGED <<entry, mode, cli, args, sample_to_files, i, j, stored>>

\* `not result.total_seeds`: the message.
ColNoSeeds ==
    /\ mode = COLORIMETRIC /\ pc = "status"
    /\ Falsy(result.total_seeds)
    /\ events' = Append(events, Msg("Did not find any seeds", sample_name, << >>))
    /\ pc' = "no_seeds"
    /\ UNCHANGED <<entry, mode, cli, args, sample_to_files, i, j, result, results, stored>>

\* `not result.marker_seeds`: the message.
ColNoMarker ==
    /\ mode = COLORIMETRIC /\ AtColMarkerTest
    /\ Falsy(result.marker_seeds)
    /\ events' = Append(events, Msg("Did not find any marker seeds", sample_name, << >>))
    /\ pc' = "no_marker"
    /\ UNCHANGED <<entry, mode, cli, args, sample_to_files, i, j, result, results, stored>>

\* "Successfully processed" or "Adjust parameters".
ColVerdict ==
    /\ mode = COLORIMETRIC /\ AtVerdict
    /\ events' = Append(events, Msg(Verdict(result), sample_name, << >>))
    /\ pc' = "verdict"
    /\ UNCHANGED <<entry, mode, cli, args, sample_to_files, i, j, result, results, stored>>

\* "Results for <sample>: <results[-1]>", and the sample loop goes on.
ColResults ==
    /\ mode = COLORIMETRIC /\ pc = "verdict"
    /\ events' = Append(events, Msg("Results for", sample_name, results[Len(results)]))
    /\ i' = i + 1
    /\ pc' = "loop"
    /\ UNCHANGED <<entry, mode, cli, args, sample_to_files, j, result, results, stored>>

\* After the last sample: the results list is yielded.
ColFinish ==
    /\ mode = COLORIMETRIC /\ pc = "loop" /\ i > Len(keys)
    /\ events' = Append(events, ResultsItem(results))
    /\ pc' = "done"
    /\ UNCHANGED <<entry, mode, cli, args, sample_to_files, i, j, result, results, stored>>

\* ------------------------------------------------------------ __main__
\* int(x) on a part of -t: the parts that are integer literals, and their value.
IsIntLiteral(x) == x \in {"30", "40"}
int(x) == CASE x = "30" -> 30 [] x = "40" -> 40

\* `bf_thresh, fl_thresh = [int(x) for x in ...split(",")]` does not raise.
IntensityParses(c) ==
    c.intensity_thresh.given =>
        /\ \A k \in 1..Len(c.intensity_thresh.parts) :
              IsIntLiteral(c.intensity_thresh.parts[k])
        /\ Len(c.intensity_thresh.parts) = 2

\* `bf_suffix, fl_suffix = args.img_type_suffix.split(",")` does not raise
\* (not executed in colorimetric mode).
SuffixParses(c, m) == m # COLORIMETRIC => Len(c.img_type_suffix) = 2

\* utils.parse_filename: "<sample_id>_<suffix>.<ext>" gives (sample_id, suffix).
parse_filename(filename, bf, fl) == <<filename[1], filename[2]>>

\* os.path.splitext(filename)[0]: the name "<p>_<t>" without its extension.
Chars(t) ==
    CASE t = "BF" -> <<"B", "F">> [] t = "FL" -> <<"F", "L">> [] t = "X" -> <<"X">>
Stem(filename) == filename[1] \o <<"_">> \o Chars(filename[2])

RECURSIVE collect_img_files(_, _, _, _)
collect_img_files(file_names, bf, fl, acc) ==
    IF file_names = << >> THEN acc
    ELSE LET filename == Head(file_names)
             parsed == parse_filename(filename, bf, fl)
             fobj == [file_path |-> <<"in", filename[1], filename[2]>>,
                      file_name |-> filename,
                      img_type |-> parsed[2]]
         IN collect_img_files(Tail(file_names), bf, fl,
                IF parsed[1] \notin DOMAIN acc
                    THEN acc @@ (parsed[1] :> <<fobj>>)
                    ELSE [acc EXCEPT ![parsed[1]] = Append(@, fobj)])

RECURSIVE collect_single_img_files(_, _)
collect_single_img_files(file_names, acc) ==
    IF file_names = << >> THEN acc
    ELSE LET filename == Head(file_names)
             name == Stem(filename)
             fobj == SingleFileObj(filename[1], filename[2])
         IN collect_single_img_files(Tail(file_names),
                IF name \in DOMAIN acc
                    THEN [acc EXCEPT ![name] = <<fobj>>]
                    ELSE acc @@ (name :> <<fobj>>))

\* img_output_dir = None if args.nostore else args.output
ImgOutputDir(c) == IF c.nostore THEN NoneStr ELSE c.output

\* The arguments __main__ passes to the batch function.
MainArgs(c, m) ==
    [bf_thresh |-> IF c.intensity_thresh.given
                       THEN int(c.intensity_thresh.parts[1]) ELSE None,
     fl_thresh |-> IF c.intensity_thresh.given
                       THEN int(c.intensity_thresh.parts[2]) ELSE None,
     radial_thresh |-> c.radial_thresh,
     batch_output_dir |-> ImgOutputDir(c),
     bf_suffix |-> IF m # COLORIMETRIC THEN c.img_type_suffix[1] ELSE NoneStr,
     fl_suffix |-> IF m # COLORIMETRIC THEN c.img_type_suffix[2] ELSE NoneStr,
     radial_threshold_ratio |-> c.radial_threshold_ratio,
     large_area_factor |-> c.large_area_factor,
     plot |-> c.plot]

\* for message in iterator: print strings, keep the non-string as results.
IsYield(e) == e.ev = "yield"
Yielded == SelectSeq(events, IsYield)

RECURSIVE Consume(_, _)
Consume(items, acc) ==
    IF items = << >> THEN acc
    ELSE Consume(Tail(items), IF Head(items).str THEN acc ELSE Head(items).value)

\* store_results given the image output directory.
StoreCallImgDir(c, rs) == [results |-> rs, output_dir |-> ImgOutputDir(c)]

\* store_results(results, args.output)
StoreCall(c, rs) == [results |-> rs, output_dir |-> c.output]

\* -t is given and is not two integers: "Invalid intensity threshold format".
MainInvalidIntensity ==
    /\ entry = "cli" /\ pc = "main"
    /\ ~IntensityParses(cli)
    /\ pc' = "error"
    /\ UNCHANGED <<entry, mode, cli, args, sample_to_files, i, j, result, results, events, stored>>

\* -s is not two parts: "Invalid image type suffix format".
MainInvalidSuffix ==
    /\ entry = "cli" /\ pc = "main"
    /\ IntensityParses(cli)
    /\ ~SuffixParses(cli, mode)
    /\ pc' = "error"
    /\ UNCHANGED <<entry, mode, cli, args, sample_to_files, i, j, result, results, events, stored>>

\* os.listdir raises for a directory that does not exist.
MainNoDirectory ==
    /\ entry = "cli" /\ pc = "main"
    /\ IntensityParses(cli) /\ SuffixParses(cli, mode)
    /\ ~cli.dir_exists
    /\ pc' = "error"
    /\ UNCHANGED <<entry, mode, cli, args, sample_to_files, i, j, result, results, events, stored>>

\* Option handling and file collection, up to the creation of the iterator.
MainCollect ==
    /\ entry = "cli" /\ pc = "main"
    /\ IntensityParses(cli) /\ SuffixParses(cli, mode)
    /\ cli.dir_exists
    /\ args' = MainArgs(cli, mode)
    /\ sample_to_files' =
          IF mode = FLUORESCENCE
              THEN collect_img_files(cli.listing, cli.img_type_suffix[1],
                                     cli.img_type_suffix[2], << >>)
              ELSE collect_single_img_files(cli.listing, << >>)
    /\ pc' = "loop"
    /\ UNCHANGED <<entry, mode, cli, i, j, result, results, events, stored>>

\* The iterator is exhausted: the results are stored and the run ends.
MainStore ==
    /\ entry = "cli" /\ pc = "done"
    /\ stored' = Append(stored, StoreCall(cli, Consume(Yielded, << >>)))
    /\ pc' = "exit"
    /\ UNCHANGED <<entry, mode, cli, args, sample_to_files, i, j, result, results, events>>

\* ------------------------------------------------------------ specification
Next ==
    \/ FlNextSample \/ FlNewResult
    \/ FlBrightfield \/ FlBrightfieldProcess
    \/ FlFluorescent \/ FlFluorescentProcess
    \/ FlUnknown
    \/ FlMissingBrightfield \/ FlMissingFluorescent \/ FlAppend
    \/ FlFinish
    \/ ColNextSample \/ ColAssertFail \/ ColProcess
    \/ ColNoSeeds \/ ColNoMarker \/ ColVerdict \/ ColResults
    \/ ColFinish
    \/ MainInvalidIntensity \/ MainInvalidSuffix \/ MainNoDirectory
    \/ MainCollect \/ MainStore

Spec == Init /\ [][Next]_vars

\* ------------------------------------------------------------ reading the log
EventIdx == 1..Len(events)
IsCall(e) == e.ev = "call"
IsMsg(e, kind, s) == e.ev = "yield" /\ e.str /\ e.kind = kind /\ e.sample = s
MsgIdx(kind, s) == {k \in EventIdx : IsMsg(events[k], kind, s)}
CallIdx(s) == {k \in EventIdx : IsCall(events[k]) /\ events[k].sample_name = s}
Max(S) == CHOOSE x \in S : \A y \in S : y <= x

\* The sample's Result has been appended.
Completed(s) == \E n \in 1..Len(results) : results[n].prefix = s
ResultOf(s) == results[CHOOSE n \in 1..Len(results) : results[n].prefix = s]

\* The generator is through with the sample: its Result is appended and its
\* last message yielded.
Through(s) ==
    /\ Completed(s)
    /\ mode = COLORIMETRIC => MsgIdx("Results for", s) # {}

\* The generator has yielded its last item / has ended one way or the other.
Finished == pc \in {"done", "exit"}
Ended == pc \in {"done", "exit", "raised"}

IsPrefix(a, b) == Len(a) <= Len(b) /\ \A k \in 1..Len(a) : a[k] = b[k]

\* The images handed to the orchestrator for sample s, in call order.
CallImages(s) ==
    LET sel == SelectSeq(events, LAMBDA e : IsCall(e) /\ e.sample_name = s)
    IN [k \in 1..Len(sel) |-> sel[k].image]

\* The arguments of the messages of one kind about sample s, in yield order.
MsgArgs(kind, s) ==
    LET sel == SelectSeq(events, LAMBDA e : IsMsg(e, kind, s))
    IN [k \in 1..Len(sel) |-> sel[k].arg]

IsRecognized(d) == d.img_type = bf_suffix \/ d.img_type = fl_suffix
IsUnrecognized(d) == ~IsRecognized(d)

\* The paths of the sample's descriptors of a recognized type, in list order.
RecognizedPaths(s) ==
    LET sel == SelectSeq(sample_to_files[s], IsRecognized)
    IN [k \in 1..Len(sel) |-> sel[k].file_path]

\* The names of the sample's descriptors of no recognized type, in list order.
UnrecognizedNames(s) ==
    LET sel == SelectSeq(sample_to_files[s], IsUnrecognized)
    IN [k \in 1..Len(sel) |-> sel[k].file_name]

\* The outcome of the sample's last call made with the given type tag, or an
\* outcome of unset fields when there was no such call.
Unset == [num_seeds |-> None, brightness_threshold |-> None, radial_threshold |-> None]
LastOutcome(s, tag) ==
    LET idx == {k \in CallIdx(s) : events[k].img_type = tag}
    IN IF idx = {} THEN Unset ELSE events[Max(idx)].returned

\* The results list rs holds one Result per sample key, in ascending string
\* order of the names.
OnePerSampleAscending(rs) ==
    /\ {rs[n].prefix : n \in 1..Len(rs)} = DOMAIN sample_to_files
    /\ \A a, b \in 1..Len(rs) : a < b => StrLess(rs[a].prefix, rs[b].prefix)

\* Every item yielded before the last one is a string, and a non-string is
\* yielded only as the generator's last item.
StringsThenResults ==
    \A k \in 1..Len(Yielded) : ~Yielded[k].str => (k = Len(Yielded) /\ Finished)

\* The last item yielded is the results list.
EndsWithResults ==
    /\ Len(Yielded) > 0
    /\ ~Yielded[Len(Yielded)].str
    /\ Yielded[Len(Yielded)].value = results
    /\ OnePerSampleAscending(Yielded[Len(Yielded)].value)

NoEmptyList == \A s \in DOMAIN sample_to_files : Len(sample_to_files[s]) # 0

\* ------------------------------------------------------------ C1
\* C1 as stated: for any mapping, both iterators yield strings and then, as
\* their last item, the results list with one Result per sample in ascending
\* order; so no iterator ends without it.
C1_Original ==
    /\ StringsThenResults
    /\ Ended => EndsWithResults

\* C1 amended: the statement holds for process_fluorescent_batch on any
\* mapping and for process_colorimetric_batch on any mapping in which no
\* sample has an empty descriptor list; with an empty list the colorimetric
\* iterator ends by AssertionError having yielded strings only.
C1_Amended ==
    /\ StringsThenResults
    /\ (mode = FLUORESCENCE \/ NoEmptyList) => (pc # "raised" /\ (Finished => EndsWithResults))
    /\ pc = "raised" => \A k \in 1..Len(Yielded) : Yielded[k].str

\* Two samples of which one's name is a proper prefix of the other's, the
\* results list yielded after several strings.
C1_Witness ==
    /\ pc = "done"
    /\ EndsWithResults
    /\ Len(Yielded) > 1
    /\ Len(results) >= 2
    /\ IsPrefix(results[1].prefix, results[2].prefix)

\* ------------------------------------------------------------ C2
\* C2, in every state: calls only for recognized descriptors, one message per
\* unknown descriptor, every other file processed, the results list yielded.
C2_Invariant ==
    mode = FLUORESCENCE =>
        /\ pc # "raised"
        /\ \A s \in DOMAIN sample_to_files :
            /\ \A k \in CallIdx(s) : \A n \in 1..Len(sample_to_files[s]) :
                  sample_to_files[s][n].file_path = events[k].image
                      => IsRecognized(sample_to_files[s][n])
            /\ IsPrefix(MsgArgs("Unknown image type", s), UnrecognizedNames(s))
            /\ Completed(s) =>
                  /\ MsgArgs("Unknown image type", s) = UnrecognizedNames(s)
                  /\ CallImages(s) = RecognizedPaths(s)
        /\ Finished => (EndsWithResults /\ \A s \in DOMAIN sample_to_files : Completed(s))

\* C2, the step for a descriptor of unknown img_type: one message, the Result
\* and the results unchanged, on to the next descriptor.
C2_Step ==
    (/\ mode = FLUORESCENCE /\ pc = "files"
     /\ j <= Len(sample_to_files[sample_name])
     /\ IsUnrecognized(sample_to_files[sample_name][j]))
    => (/\ result' = result /\ results' = results
        /\ j' = j + 1 /\ pc' = "files" /\ i' = i
        /\ Len(events') = Len(events) + 1
        /\ IsMsg(events'[Len(events')], "Unknown image type", sample_name)
        /\ events'[Len(events')].arg = sample_to_files[sample_name][j].file_name)

\* C2: in process_fluorescent_batch a descriptor of unknown img_type gets one
\* "Unknown image type" message naming the file, no orchestrator call and no
\* change of the Result, and the batch still processes every other file and
\* sample and yields the results list.
C2_UnknownSkipped == [](C2_Invariant) /\ [][C2_Step]_vars

C2_Witness ==
    /\ mode = FLUORESCENCE /\ pc = "done"
    /\ \E s \in DOMAIN sample_to_files :
        /\ Len(sample_to_files[s]) >= 2
        /\ IsUnrecognized(sample_to_files[s][1])
        /\ IsRecognized(sample_to_files[s][2])
        /\ CallIdx(s) # {}
        /\ \E k \in MsgIdx("Unknown image type", s) : k < Max(CallIdx(s))

\* ------------------------------------------------------------ C3
\* The images the batch is to hand to the orchestrator for sample s.
ExpectedImages(s) ==
    IF mode = FLUORESCENCE THEN RecognizedPaths(s)
    ELSE IF Len(sample_to_files[s]) = 0 THEN << >>
    ELSE <<sample_to_files[s][1].file_path>>

\* What holds of the calls in every state: per sample they are the first
\* images to process, in descriptor-list order, all of them once the sample's
\* Result is appended; they come in ascending sample order, after the sample's
\* one "Processing sample" message.
CallsInOrder ==
    /\ \A s \in DOMAIN sample_to_files :
        /\ IsPrefix(CallImages(s), ExpectedImages(s))
        /\ Completed(s) => CallImages(s) = ExpectedImages(s)
        /\ Cardinality(MsgIdx("Processing sample", s)) <= 1
        /\ \A k \in CallIdx(s) : \E m \in MsgIdx("Processing sample", s) : m < k
    /\ \A a, b \in EventIdx :
          (a < b /\ IsCall(events[a]) /\ IsCall(events[b]))
              => \/ events[a].sample_name = events[b].sample_name
                 \/ StrLess(events[a].sample_name, events[b].sample_name)
    /\ \A k \in EventIdx : IsCall(events[k]) =>
          /\ events[k].sample_name \in DOMAIN sample_to_files
          /\ events[k].fn = (IF mode = FLUORESCENCE THEN "process_seed_image"
                             ELSE "process_colorimetric_image")

\* Every sample has had its calls: one per brightfield or fluorescent
\* descriptor (fluorescence), exactly one (colorimetric).
EverySampleCalled ==
    \A s \in DOMAIN sample_to_files :
        IF mode = FLUORESCENCE THEN CallImages(s) = RecognizedPaths(s)
        ELSE Len(CallImages(s)) = 1

\* C3 as stated: the orchestrator is called exactly once per image and never
\* again: once per brightfield or fluorescent descriptor (fluorescence), once
\* per sample (colorimetric), for any mapping; the calls come in ascending
\* sample order and, within a sample, in descriptor-list order, after the
\* sample's one "Processing sample" message.
C3_Original ==
    /\ CallsInOrder
    /\ Ended => EverySampleCalled

\* C3 amended: the statement holds for process_fluorescent_batch on any
\* mapping and for process_colorimetric_batch on any mapping in which no
\* sample has an empty descriptor list (the one call is for the sample's
\* first descriptor); with an empty list the colorimetric batch ends by
\* AssertionError at the first such sample, having called the orchestrator
\* once for each sample sorted before it and for no other sample.
C3_Amended ==
    /\ CallsInOrder
    /\ (mode = FLUORESCENCE \/ NoEmptyList) =>
          /\ pc # "raised"
          /\ Finished => (EverySampleCalled
                           /\ \A s \in DOMAIN sample_to_files : Completed(s))
    /\ pc = "raised" =>
          /\ mode = COLORIMETRIC
          /\ Len(sample_to_files[sample_name]) = 0
          /\ \A s \in DOMAIN sample_to_files :
                IF StrLess(s, sample_name)
                    THEN /\ Len(sample_to_files[s]) # 0
                         /\ CallImages(s) = <<sample_to_files[s][1].file_path>>
                    ELSE CallIdx(s) = {}

\* Two samples processed one after the other, the first with a brightfield
\* and a fluorescent call.
C3_Witness ==
    /\ pc = "done"
    /\ \E s, t \in DOMAIN sample_to_files :
        /\ StrLess(s, t)
        /\ CallIdx(s) # {} /\ CallIdx(t) # {}
        /\ Max(CallIdx(s)) < Max(CallIdx(t))
        /\ mode = FLUORESCENCE =>
              \E k \in CallIdx(s) : events[k].img_type = DEFAULT_BRIGHTFIELD_SUFFIX

\* ------------------------------------------------------------ C4
C4_Built ==
    \A n \in 1..Len(results) :
        LET r == results[n]
            s == r.prefix
        IN IF mode = FLUORESCENCE
           THEN LET bf == LastOutcome(s, DEFAULT_BRIGHTFIELD_SUFFIX)
                    fl == LastOutcome(s, DEFAULT_FLUORESCENT_SUFFIX)
                IN /\ r.total_seeds = bf.num_seeds
                   /\ r.bf_thresh = bf.brightness_threshold
                   /\ r.marker_seeds = fl.num_seeds
                   /\ r.marker_thresh = fl.brightness_threshold
           ELSE \E k \in CallIdx(s) :
                   /\ CallIdx(s) = {k}
                   /\ r.total_seeds = events[k].returned[1].num_seeds
                   /\ r.bf_thresh = events[k].returned[1].brightness_threshold
                   /\ r.radial_threshold = events[k].returned[1].radial_threshold
                   /\ r.marker_seeds = events[k].returned[2].num_seeds
                   /\ r.marker_thresh = events[k].returned[2].brightness_threshold

C4_Kept ==
    \A n \in 1..Len(results) : Len(results') >= n /\ results'[n] = results[n]

\* C4: every appended Result carries the counts and thresholds of its own
\* sample's outcomes (brightfield and fluorescent outcome, or the "all seeds"
\* and "marker" outcome of the one colorimetric call), and no later step
\* changes an appended Result.
C4_OwnOutcomes == [](C4_Built) /\ [][C4_Kept]_vars

\* A Result with both counts set from two different outcomes.
C4_Witness ==
    /\ pc = "done" /\ mode = FLUORESCENCE
    /\ Len(results) >= 1
    /\ results[1].total_seeds > 0
    /\ results[1].marker_seeds = 0
    /\ results[1].bf_thresh # results[1].marker_thresh

\* ------------------------------------------------------------ C5
\* Some message of the kind about s is yielded after event k.
MsgAfter(kind, s, k) == \E m \in MsgIdx(kind, s) : m > k

\* The kinds of message that say that no seeds were found.
NoSeedsFound == {"Did not find any seeds", "Did not find any marker seeds"}

\* C5 as stated: an outcome with num_seeds = 0 is no error: the Result
\* records 0, a status message saying that no seeds were found follows
\* (colorimetric: "Did not find any seeds", then "Adjust parameters", never
\* "Successfully processed"), the Result is appended and the batch goes on to
\* the results list.
C5_ZeroSeedsReported ==
    /\ \A s \in DOMAIN sample_to_files : \A k \in CallIdx(s) :
        IF mode = COLORIMETRIC
        THEN /\ Completed(s)
             /\ events[k].returned[1].num_seeds = 0 =>
                   /\ ResultOf(s).total_seeds = 0
                   /\ MsgIdx("Successfully processed", s) = {}
                   /\ Through(s) =>
                         \E m \in MsgIdx("Did not find any seeds", s) :
                             m > k /\ MsgAfter("Adjust parameters", s, m)
        ELSE (Through(s) /\ k = Max(CallIdx(s))) =>
             /\ LastOutcome(s, DEFAULT_BRIGHTFIELD_SUFFIX).num_seeds = 0 =>
                   /\ ResultOf(s).total_seeds = 0
                   /\ \E kind \in NoSeedsFound : MsgAfter(kind, s, k)
             /\ LastOutcome(s, DEFAULT_FLUORESCENT_SUFFIX).num_seeds = 0 =>
                   /\ ResultOf(s).marker_seeds = 0
                   /\ \E kind \in NoSeedsFound : MsgAfter(kind, s, k)
    /\ pc = "raised" => Len(sample_to_files[sample_name]) = 0
    /\ Finished => (EndsWithResults /\ \A s \in DOMAIN sample_to_files : Through(s))

\* ------------------------------------------------------------ C6
\* What holds of store_results and of the image output directory in every
\* state of a command-line run.
StoredOnceAtExit ==
    /\ Len(stored) = (IF pc = "exit" THEN 1 ELSE 0)
    /\ pc = "exit" =>
          /\ EndsWithResults
          /\ stored[1].results = Yielded[Len(Yielded)].value
          /\ stored[1].output_dir = cli.output
    /\ pc \notin {"main", "error"} =>
          args.batch_output_dir = (IF cli.nostore THEN NoneStr ELSE cli.output)
    /\ \A k \in EventIdx : IsCall(events[k]) =>
          events[k].output_dir = (IF cli.nostore THEN NoneStr ELSE cli.output)

\* The options can be handled and the directory listed.
Accepted == IntensityParses(cli) /\ SuffixParses(cli, mode) /\ cli.dir_exists

\* C6 as stated: in the command-line run (any run) store_results is called
\* exactly once, after the iterator is exhausted, with the final results list
\* and args.output, with or without --nostore: no run ends by an exception
\* without storing.
C6_Original ==
    entry = "cli" => (pc \notin {"raised", "error"} /\ StoredOnceAtExit)

\* C6 amended: the statement holds in every command-line run whose -t is
\* absent or two integers, whose -s (fluorescence mode) is two parts and whose
\* directory can be listed; any other run ends by an exception before the
\* iterator is created, and stores nothing.
C6_Amended ==
    entry = "cli" =>
        /\ StoredOnceAtExit
        /\ pc # "raised"
        /\ Accepted => pc # "error"
        /\ ~Accepted => (pc \in {"main", "error"} /\ events = << >> /\ stored = << >>)

C6_Witness ==
    /\ entry = "cli" /\ pc = "exit"
    /\ cli.nostore /\ cli.intensity_thresh.given
    /\ Len(stored) = 1
    /\ Len(stored[1].results) >= 1
    /\ \E k \in EventIdx : IsCall(events[k])

\* ------------------------------------------------------------ C7
\* C7 as stated: the "Couldn't find <bf_suffix> (brightfield) image" message
\* is yielded for a sample if and only if none of its descriptors has the
\* brightfield suffix as img_type, and likewise for the fluorescent message.
C7_MissingIffNoFile ==
    mode = FLUORESCENCE =>
        \A s \in DOMAIN sample_to_files :
            /\ (MsgIdx("Couldn't find brightfield image", s) # {})
                  => (\A n \in 1..Len(sample_to_files[s]) :
                          sample_to_files[s][n].img_type # bf_suffix)
            /\ (MsgIdx("Couldn't find fluorescent image", s) # {})
                  => (\A n \in 1..Len(sample_to_files[s]) :
                          sample_to_files[s][n].img_type # fl_suffix)
            /\ Completed(s) =>
                /\ (\A n \in 1..Len(sample_to_files[s]) :
                        sample_to_files[s][n].img_type # bf_suffix)
                      => MsgIdx("Couldn't find brightfield image", s) # {}
                /\ (\A n \in 1..Len(sample_to_files[s]) :
                        sample_to_files[s][n].img_type # fl_suffix)
                      => MsgIdx("Couldn't find fluorescent image", s) # {}

\* ------------------------------------------------------------ C8
\* C8 as stated: in process_colorimetric_batch a sample whose list does not
\* hold exactly one descriptor fails the assertion, and none of its images is
\* processed.
C8_OnlyOneImage ==
    mode = COLORIMETRIC =>
        \A s \in DOMAIN sample_to_files :
            Len(sample_to_files[s]) # 1 => (CallIdx(s) = {} /\ ~Completed(s))

\* ------------------------------------------------------------ C9
\* The arguments every call receives from the caller unchanged.
PassedThrough(c) ==
    /\ c.radial_threshold = args.radial_thresh
    /\ c.radial_threshold_ratio = args.radial_threshold_ratio
    /\ c.large_area_factor = args.large_area_factor

\* C9 as stated: a call for a file of the brightfield suffix gets bf_thresh
\* and the brightfield tag, a call for a file of the fluorescent suffix gets
\* fl_thresh and the fluorescent tag, and every call gets radial_thresh,
\* radial_threshold_ratio and large_area_factor unchanged.
C9_Original ==
    mode = FLUORESCENCE =>
        \A k \in EventIdx : IsCall(events[k]) =>
            LET c == events[k]
                files == sample_to_files[c.sample_name]
            IN /\ PassedThrough(c)
               /\ \E n \in 1..Len(files) : files[n].file_path = c.image
               /\ \A n \in 1..Len(files) : files[n].file_path = c.image =>
                    /\ files[n].img_type = bf_suffix =>
                          /\ c.initial_brightness_thresh = args.bf_thresh
                          /\ c.img_type = DEFAULT_BRIGHTFIELD_SUFFIX
                    /\ files[n].img_type = fl_suffix =>
                          /\ c.initial_brightness_thresh = args.fl_thresh
                          /\ c.img_type = DEFAULT_FLUORESCENT_SUFFIX

\* C9 amended: the fluorescent half holds for a file whose img_type is the
\* fluorescent suffix and not also the brightfield suffix; when the two
\* suffixes are equal every such file is processed as brightfield.
C9_Amended ==
    mode = FLUORESCENCE =>
        \A k \in EventIdx : IsCall(events[k]) =>
            LET c == events[k]
                files == sample_to_files[c.sample_name]
            IN /\ PassedThrough(c)
               /\ \E n \in 1..Len(files) : files[n].file_path = c.image
               /\ \A n \in 1..Len(files) : files[n].file_path = c.image =>
                    /\ files[n].img_type = bf_suffix =>
                          /\ c.initial_brightness_thresh = args.bf_thresh
                          /\ c.img_type = DEFAULT_BRIGHTFIELD_SUFFIX
                    /\ (files[n].img_type = fl_suffix /\ files[n].img_type # bf_suffix) =>
                          /\ c.initial_brightness_thresh = args.fl_thresh
                          /\ c.img_type = DEFAULT_FLUORESCENT_SUFFIX

C9_Witness ==
    /\ mode = FLUORESCENCE /\ pc = "done"
    /\ args.bf_suffix = "X" /\ args.bf_thresh # args.fl_thresh
    /\ \E a, b \in EventIdx :
        /\ IsCall(events[a]) /\ events[a].img_type = DEFAULT_BRIGHTFIELD_SUFFIX
        /\ events[a].image[3] = "X"
        /\ IsCall(events[b]) /\ events[b].img_type = DEFAULT_FLUORESCENT_SUFFIX

====
